---- MODULE Spec2Model ----
(***************************************************************************)
(* Model of toolbox/hdr/Iterator.cpp: the shared stepping engine           *)
(* HdrIterator::operator++ and its three policies (AllValuesIterator,      *)
(* RecordedIterator, PercentileIterator) over a read-only histogram.       *)
(*                                                                         *)
(* Two cursors of the same policy traverse one unmodified histogram.       *)
(* Doubles are modelled as exact rationals <<num, den>> (den > 0), with    *)
(* <<0, 0>> standing for NaN and <<1, 0>> for +infinity.                   *)
(***************************************************************************)
EXTENDS Integers, Sequences, FiniteSets, TLC

\* ---- bounds of the model ----
MaxLen == 3          \* largest counts_len
MaxCount == 2        \* largest count stored in one slot
MaxSteps == 16       \* cap on the advance calls counted per cursor
MaxOverrun == 2      \* slots past the count table a runaway operator++ is followed over

\* values a read past the end of the count table may return
Garbage == {-1, 0, 1}
Cursors == {1, 2}
Policies == {"AllValues", "Recorded", "Percentile"}
\* percentile_ticks_per_half_distance is a double: 1/4, 1/2, 1 and 2
TicksSet == {<<1, 4>>, <<1, 2>>, <<1, 1>>, <<2, 1>>}

VARIABLES
    counts_len,   \* hist_.counts_len
    counts,       \* hist_ count table, indexed 0..counts_len-1
    total_count,  \* hist_.total_count_
    beyond,       \* what the memory after the count table holds
    policy,       \* dynamic type of both cursors
    ticks,        \* percentile_ticks_per_half_distance_
    it,           \* the two cursors
    emitted,      \* history: per cursor, the emissions so far
    steps,        \* history: operator++ calls up to and including the exhausting one
    queried,      \* history: has the consumer called has_next() itself
    div_by_zero,  \* history: a division by total_count_ = 0 was evaluated
    oob_read,     \* history: get_count_at_index was called out of range
    hung,         \* history: per cursor, an operator++ call ran away past the table
    exc,          \* the Exception under test and its renderings
    cmp           \* result of the last operator== / operator!=

vars == <<counts_len, counts, total_count, beyond, policy, ticks, it, emitted,
          steps, queried, div_by_zero, oob_read, hung, cmp, exc>>

hist == <<counts_len, counts, total_count, beyond, policy, ticks>>

\* ---- rationals standing for doubles ----
RECURSIVE GCD(_, _)
GCD(a, b) == IF b = 0 THEN a ELSE GCD(b, a % b)

Abs(n) == IF n < 0 THEN -n ELSE n

NaN == <<0, 0>>

IsNaN(r) == r[2] = 0 /\ r[1] = 0

Norm(r) ==
    IF r[2] = 0 THEN (IF r[1] = 0 THEN NaN ELSE <<1, 0>>)
    ELSE LET g == GCD(Abs(r[1]), r[2]) IN <<r[1] \div g, r[2] \div g>>

\* a >= b on doubles: false when either side is NaN
RGeq(a, b) == ~IsNaN(a) /\ ~IsNaN(b) /\ a[1] * b[2] >= b[1] * a[2]

RGt(a, b) == ~IsNaN(a) /\ ~IsNaN(b) /\ a[1] * b[2] > b[1] * a[2]

Hundred == <<100, 1>>

\* (100.0 * n) / d with integer n >= 0 and d >= 0
Percent(n, d) == Norm(<<100 * n, d>>)

RECURSIVE SumTo(_, _)
SumTo(f, i) == IF i < 0 THEN 0 ELSE f[i] + SumTo(f, i - 1)

\* ---- histogram (Histogram.hpp, bucket layout of section 4.1) ----
unit_magnitude == 0
sub_bucket_half_count_magnitude == 1

RECURSIVE Pow2(_)
Pow2(n) == IF n <= 0 THEN 1 ELSE 2 * Pow2(n - 1)

RECURSIVE BitLen(_)
BitLen(n) == IF n <= 0 THEN 0 ELSE 1 + BitLen(n \div 2)

sub_bucket_half_count == Pow2(sub_bucket_half_count_magnitude)
sub_bucket_count == 2 * sub_bucket_half_count
sub_bucket_mask == (sub_bucket_count - 1) * Pow2(unit_magnitude)

get_value_from_index(index) ==
    LET bi == (index \div sub_bucket_half_count) - 1
        sbi == (index % sub_bucket_half_count) + sub_bucket_half_count
    IN IF bi < 0 THEN (sbi - sub_bucket_half_count) * Pow2(unit_magnitude)
       ELSE sbi * Pow2(bi + unit_magnitude)

get_bucket_index(value) ==
    LET ored == IF value < sub_bucket_mask THEN sub_bucket_mask ELSE value
    IN BitLen(ored) - unit_magnitude - (sub_bucket_half_count_magnitude + 1)

get_highest_equivalent_value(value) ==
    LET bi == get_bucket_index(value)
        sbi == value \div Pow2(bi + unit_magnitude)
        lowest == sbi * Pow2(bi + unit_magnitude)
        adj == IF sbi >= sub_bucket_count THEN bi + 1 ELSE bi
    IN lowest + Pow2(unit_magnitude + adj) - 1

InRange(index) == index \in 0..(counts_len - 1)

get_count_at_index(index) == IF InRange(index) THEN counts[index] ELSE beyond

\* ---- cursor construction ----
\* default member initializers of HdrIterationValue
HdrIterationValueDefaults ==
    [value_iterated_to |-> 0,
     value_iterated_from |-> 0,
     count_at_value_iterated_to |-> 0,
     count_added_in_this_iter_step |-> 0,
     total_count_to_this_value |-> 0,
     total_value_to_this_value |-> 0,
     percentile |-> <<0, 1>>,
     percentile_level_iterated_to |-> <<0, 1>>]

\* default member initializers of HdrIterator, AllValuesIterator and
\* PercentileIterator (the members the constructors do not name)
HdrIteratorDefaults ==
    [current_index |-> 0,
     count_at_this_value |-> 0,
     total_count_to_current_index |-> 0,
     total_count_to_prev_index |-> 0,
     prev_value_iterated_to |-> 0,
     value_at_index |-> 0,
     value_to_index |-> 0,
     fresh_sub_bucket |-> TRUE,
     end |-> FALSE,
     visited_index |-> -1,
     percentile_to_iterate_to |-> <<0, 1>>,
     percentile_to_iterate_from |-> <<0, 1>>,
     reached_last_recorded_value |-> FALSE]

\* HdrIterator::HdrIterator(const HdrHistogram&)
HdrIterator(hist_total_count) ==
    [current_index |-> HdrIteratorDefaults.current_index,
     count_at_this_value |-> HdrIteratorDefaults.count_at_this_value,
     total_count_to_current_index |-> HdrIteratorDefaults.total_count_to_current_index,
     total_count_to_prev_index |-> HdrIteratorDefaults.total_count_to_prev_index,
     prev_value_iterated_to |-> HdrIteratorDefaults.prev_value_iterated_to,
     value_at_index |-> HdrIteratorDefaults.value_at_index,
     value_to_index |-> HdrIteratorDefaults.value_to_index,
     value_at_next_index |-> Pow2(unit_magnitude),
     fresh_sub_bucket |-> HdrIteratorDefaults.fresh_sub_bucket,
     end |-> HdrIteratorDefaults.end,
     total_count |-> hist_total_count,
     visited_index |-> HdrIteratorDefaults.visited_index,
     percentile_to_iterate_to |-> HdrIteratorDefaults.percentile_to_iterate_to,
     percentile_to_iterate_from |-> HdrIteratorDefaults.percentile_to_iterate_from,
     reached_last_recorded_value |-> HdrIteratorDefaults.reached_last_recorded_value,
     current_iteration_value |-> HdrIterationValueDefaults]

\* ---- hooks ----
HdrIterator_has_next(s) == s.total_count_to_current_index < s.total_count

\* mutant: the traversal bound is counts_len instead of counts_len - 1
AllValuesIterator_has_next_mut(s) ==
    LET next == s.current_index < counts_len
    IN [ret |-> next, it |-> IF ~next THEN [s EXCEPT !.end = TRUE] ELSE s]

\* mutant: end_ is set when there is more, not when there is no more
AllValuesIterator_has_next_mut_end(s) ==
    LET next == s.current_index < counts_len - 1
    IN [ret |-> next, it |-> IF next THEN [s EXCEPT !.end = TRUE] ELSE s]

\* has_next() is const but writes the mutable end_: result and new state
AllValuesIterator_has_next(s) ==
    LET next == s.current_index < counts_len - 1
    IN [ret |-> next, it |-> IF ~next THEN [s EXCEPT !.end = TRUE] ELSE s]

PercentileIterator_has_next(s) ==
    IF HdrIterator_has_next(s) THEN [ret |-> TRUE, it |-> s]
    ELSE IF ~s.reached_last_recorded_value /\ s.total_count # 0
         THEN [ret |-> TRUE,
               it |-> [s EXCEPT !.percentile_to_iterate_to = Hundred,
                                !.reached_last_recorded_value = TRUE]]
         ELSE [ret |-> FALSE, it |-> [s EXCEPT !.end = TRUE]]

has_next(s) ==
    IF policy = "Percentile" THEN PercentileIterator_has_next(s)
    ELSE AllValuesIterator_has_next(s)

AllValuesIterator_reached_iteration_level(s) == s.visited_index # s.current_index

\* mutant: the count of the current bucket is not looked at
RecordedIterator_reached_iteration_level_mut(s) ==
    s.visited_index # s.current_index

RecordedIterator_reached_iteration_level(s) ==
    LET current_count == get_count_at_index(s.current_index)
    IN current_count # 0 /\ s.visited_index # s.current_index

\* mutant: the target must be exceeded, not reached
PercentileIterator_reached_iteration_level_mut(s) ==
    IF s.count_at_this_value = 0 THEN FALSE
    ELSE RGt(Percent(s.total_count_to_current_index, s.total_count),
             s.percentile_to_iterate_to)

PercentileIterator_reached_iteration_level(s) ==
    IF s.count_at_this_value = 0 THEN FALSE
    ELSE RGeq(Percent(s.total_count_to_current_index, s.total_count),
              s.percentile_to_iterate_to)

reached_iteration_level(s) ==
    CASE policy = "AllValues" -> AllValuesIterator_reached_iteration_level(s)
      [] policy = "Recorded" -> RecordedIterator_reached_iteration_level(s)
      [] OTHER -> PercentileIterator_reached_iteration_level(s)

AllValuesIterator_increment_iteration_level(s) ==
    [s EXCEPT !.visited_index = s.current_index]

\* pow(2, log(100 / gap) / log(2) + 1) is 200 / gap, so the step is
\* 100 / (ticks * 200 / gap) = gap / (2 * ticks); log of a negative
\* quotient is NaN and so is everything computed from it.
PercentileIterator_increment_iteration_level(s) ==
    LET t == s.percentile_to_iterate_to
        s1 == [s EXCEPT !.percentile_to_iterate_from = t]
        gapnum == IF IsNaN(t) THEN 0 ELSE 100 * t[2] - t[1]
    IN IF IsNaN(t) THEN s1
       ELSE IF gapnum = 0 THEN s1
       ELSE IF gapnum < 0 THEN [s1 EXCEPT !.percentile_to_iterate_to = NaN]
       ELSE [s1 EXCEPT !.percentile_to_iterate_to =
                Norm(<<t[1] * 2 * ticks[1] + gapnum * ticks[2],
                       t[2] * 2 * ticks[1]>>)]

increment_iteration_level(s) ==
    IF policy = "Percentile" THEN PercentileIterator_increment_iteration_level(s)
    ELSE AllValuesIterator_increment_iteration_level(s)

HdrIterator_get_percentile_iterated_to(s) ==
    Percent(s.total_count_to_current_index, s.total_count)

get_percentile_iterated_to(s) ==
    IF policy = "Percentile" THEN s.percentile_to_iterate_to
    ELSE HdrIterator_get_percentile_iterated_to(s)

get_value_iterated_to(s) == get_highest_equivalent_value(s.value_at_index)

\* mutant: the count added is taken to be the count of the bucket
HdrIterationValue_set_mut(s, value) ==
    [value_iterated_to |-> value,
     value_iterated_from |-> s.prev_value_iterated_to,
     count_at_value_iterated_to |-> s.count_at_this_value,
     count_added_in_this_iter_step |-> s.count_at_this_value,
     total_count_to_this_value |-> s.total_count_to_current_index,
     total_value_to_this_value |-> s.value_to_index,
     percentile |-> Percent(s.total_count_to_current_index, s.total_count),
     percentile_level_iterated_to |-> get_percentile_iterated_to(s)]

\* HdrIterationValue::set
HdrIterationValue_set(s, value) ==
    [value_iterated_to |-> value,
     value_iterated_from |-> s.prev_value_iterated_to,
     count_at_value_iterated_to |-> s.count_at_this_value,
     count_added_in_this_iter_step |->
         s.total_count_to_current_index - s.total_count_to_prev_index,
     total_count_to_this_value |-> s.total_count_to_current_index,
     total_value_to_this_value |-> s.value_to_index,
     percentile |-> Percent(s.total_count_to_current_index, s.total_count),
     percentile_level_iterated_to |-> get_percentile_iterated_to(s)]

increment_sub_bucket(s) ==
    [s EXCEPT !.fresh_sub_bucket = TRUE,
              !.current_index = s.current_index + 1,
              !.value_at_index = get_value_from_index(s.current_index + 1),
              !.value_at_next_index = get_value_from_index(s.current_index + 2)]

\* ---- HdrIterator::operator++ ----
\* g accumulates what the call did besides changing the cursor: whether a
\* division by total_count_ = 0 or an out-of-range count read happened.
\* A loop that keeps reading past the count table is followed for
\* MaxOverrun slots and then reported as a call that does not return.
RECURSIVE OperatorIncLoop(_, _)
OperatorIncLoop(s, g) ==
    LET hn == has_next(s)
    IN IF ~hn.ret
       THEN [it |-> hn.it, emit |-> FALSE, index |-> hn.it.current_index,
             div0 |-> g.div0, oob |-> g.oob, hung |-> FALSE]
       ELSE IF hn.it.current_index >= counts_len + MaxOverrun
       THEN [it |-> hn.it, emit |-> FALSE, index |-> hn.it.current_index,
             div0 |-> g.div0, oob |-> g.oob, hung |-> TRUE]
       ELSE
         LET s0 == hn.it
             s1 == [s0 EXCEPT !.count_at_this_value =
                                  get_count_at_index(s0.current_index)]
             s2 == IF s1.fresh_sub_bucket
                   THEN [s1 EXCEPT
                           !.total_count_to_current_index =
                               @ + s1.count_at_this_value,
                           !.value_to_index =
                               @ + s1.count_at_this_value * get_value_iterated_to(s1),
                           !.fresh_sub_bucket = FALSE]
                   ELSE s1
             g1 == [div0 |-> g.div0 \/ (policy = "Percentile"
                                        /\ s2.count_at_this_value # 0
                                        /\ s2.total_count = 0),
                    oob |-> g.oob \/ ~InRange(s0.current_index)]
         IN IF reached_iteration_level(s2)
            THEN LET value_iterated_to == get_value_iterated_to(s2)
                     s3 == [s2 EXCEPT !.current_iteration_value =
                                HdrIterationValue_set(s2, value_iterated_to)]
                     s4 == [s3 EXCEPT
                              !.prev_value_iterated_to = value_iterated_to,
                              !.total_count_to_prev_index =
                                  s3.total_count_to_current_index]
                 IN [it |-> increment_iteration_level(s4), emit |-> TRUE,
                     index |-> s4.current_index,
                     div0 |-> g1.div0 \/ s2.total_count = 0, oob |-> g1.oob,
                     hung |-> FALSE]
            ELSE OperatorIncLoop(increment_sub_bucket(s2), g1)

OperatorInc(s) == OperatorIncLoop(s, [div0 |-> FALSE, oob |-> FALSE])

\* operator==(const RecordedIterator&, const RecordedIterator&) and
\* operator==(const PercentileIterator&, const PercentileIterator&)
\* mutant: equal only when both are exhausted
OperatorEq_mut(lhs, rhs) == lhs.end /\ rhs.end

OperatorEq(lhs, rhs) == lhs.end = rhs.end

OperatorNe(lhs, rhs) == ~OperatorEq(lhs, rhs)

\* ---- Exception (util/Exception.hpp, exercised by Exception.ut.cpp) ----
\* strings are sequences of characters
ErrorCodes == {-1, 0, 7, 22, 110, 1000}
Messages ==
    {<<"c", "a", "n", "n", "o", "t", " ", "s", "e", "n", "d", " ", "m", "e", "s", "s", "a", "g", "e">>,
     <<>>,
     <<"x">>,
     <<"a", " ", "(", "1", ")">>,
     <<"s", "a", "y", " ", "\"", "h", "i", "\"">>}

DigitChar(d) == <<"0", "1", "2", "3", "4", "5", "6", "7", "8", "9">>[d + 1]

RECURSIVE NatToChars(_)
NatToChars(n) ==
    IF n < 10 THEN <<DigitChar(n)>>
    ELSE Append(NatToChars(n \div 10), DigitChar(n % 10))

\* operator<<(std::ostream&, int)
IntToChars(n) == IF n < 0 THEN <<"-">> \o NatToChars(-n) ELSE NatToChars(n)

\* Exception{ec, what}
Exception(ec, what) == [code |-> ec, what |-> what]

\* mutant: the blank before the parenthesis is lost
put_with_code_mut(e) == e.what \o <<"(">> \o IntToChars(e.code) \o <<")">>

\* put_with_code(e): "<message> (<code>)"
put_with_code(e) == e.what \o <<" ", "(">> \o IntToChars(e.code) \o <<")">>

\* put_as_json(e): {"code":N,"message":"..."}
put_as_json(e) ==
    <<"{", "\"", "c", "o", "d", "e", "\"", ":">> \o IntToChars(e.code)
        \o <<",", "\"", "m", "e", "s", "s", "a", "g", "e", "\"", ":", "\"">> \o e.what \o <<"\"", "}">>

NoException ==
    [built |-> FALSE, ec |-> 0, message |-> <<>>, e |-> Exception(0, <<>>),
     with_code |-> <<>>, as_json |-> <<>>]

\* ---- state machine ----
Sum(f, n) == SumTo(f, n - 1)

Init ==
    /\ counts_len \in 1..MaxLen
    /\ counts \in [0..(counts_len - 1) -> 0..MaxCount]
    /\ total_count = Sum(counts, counts_len)
    /\ beyond \in Garbage
    /\ policy \in Policies
    /\ ticks \in (IF policy = "Percentile" THEN TicksSet ELSE {<<1, 1>>})
    /\ it = [c \in Cursors |-> HdrIterator(total_count)]
    /\ emitted = [c \in Cursors |-> <<>>]
    /\ steps = [c \in Cursors |-> 0]
    /\ queried = [c \in Cursors |-> FALSE]
    /\ div_by_zero = FALSE
    /\ oob_read = FALSE
    /\ hung = [c \in Cursors |-> FALSE]
    /\ cmp = [done |-> FALSE, lhs_end |-> FALSE, rhs_end |-> FALSE,
              eq |-> FALSE, ne |-> FALSE]
    /\ exc = NoException

\* the consumer advances cursor c: ++it
Advance(c) ==
    /\ ~hung[c]
    /\ steps[c] < MaxSteps
    /\ LET r == OperatorInc(it[c])
       IN /\ it' = [it EXCEPT ![c] = r.it]
          /\ emitted' = [emitted EXCEPT ![c] =
                IF r.emit
                THEN Append(@, [index |-> r.index,
                                snap |-> r.it.current_iteration_value])
                ELSE @]
          /\ steps' = [steps EXCEPT ![c] = IF it[c].end THEN @ ELSE @ + 1]
          /\ div_by_zero' = (div_by_zero \/ r.div0)
          /\ oob_read' = (oob_read \/ r.oob)
          /\ hung' = [hung EXCEPT ![c] = r.hung]
    /\ UNCHANGED <<hist, queried, cmp, exc>>

\* the consumer asks cursor c "is there more?": it.has_next()
HasNext(c) ==
    /\ ~hung[c]
    /\ it' = [it EXCEPT ![c] = has_next(it[c]).it]
    /\ queried' = [queried EXCEPT ![c] = TRUE]
    /\ UNCHANGED <<hist, emitted, steps, div_by_zero, oob_read, hung, cmp, exc>>

\* the consumer compares the two cursors: it1 == it2, it1 != it2
Compare ==
    /\ policy # "AllValues"
    /\ \A c \in Cursors : ~hung[c]
    /\ cmp' = [done |-> TRUE, lhs_end |-> it[1].end, rhs_end |-> it[2].end,
               eq |-> OperatorEq(it[1], it[2]), ne |-> OperatorNe(it[1], it[2])]
    /\ UNCHANGED <<hist, it, emitted, steps, queried, div_by_zero, oob_read, hung, exc>>

\* one consumer drives cursor 1; cursor 2 stays as constructed
Next ==
    \/ Advance(1)
    \/ HasNext(1)
    \/ Compare

Spec == Init /\ [][Next]_vars

\* two consumers drive the two cursors independently
NextPair ==
    \/ \E c \in Cursors : Advance(c)
    \/ \E c \in Cursors : HasNext(c)
    \/ Compare

\* ticks for which no read leaves the count table: what lies beyond it is
\* then never looked at
PairTicksSet == {<<1, 2>>, <<1, 1>>}

InitPair == Init /\ ticks \in PairTicksSet /\ beyond = 0

SpecPair == InitPair /\ [][NextPair]_vars

\* const Exception e{ec, "..."}
Construct(ec, message) ==
    /\ ~exc.built
    /\ exc' = [built |-> TRUE, ec |-> ec, message |-> message,
               e |-> Exception(ec, message),
               with_code |-> <<>>, as_json |-> <<>>]
    /\ UNCHANGED <<hist, it, emitted, steps, queried, div_by_zero, oob_read,
                   hung, cmp>>

\* ss << put_with_code(e)
PutWithCode ==
    /\ exc.built
    /\ exc' = [exc EXCEPT !.with_code = put_with_code(exc.e)]
    /\ UNCHANGED <<hist, it, emitted, steps, queried, div_by_zero, oob_read,
                   hung, cmp>>

\* ss << put_as_json(e)
PutAsJson ==
    /\ exc.built
    /\ exc' = [exc EXCEPT !.as_json = put_as_json(exc.e)]
    /\ UNCHANGED <<hist, it, emitted, steps, queried, div_by_zero, oob_read,
                   hung, cmp>>

NextException ==
    \/ \E ec \in ErrorCodes, message \in Messages : Construct(ec, message)
    \/ PutWithCode
    \/ PutAsJson

\* the exception test alone: no cursor moves
InitException ==
    /\ Init
    /\ counts_len = 1
    /\ total_count = 0
    /\ beyond = 0
    /\ policy = "AllValues"

SpecException == InitException /\ [][NextException]_vars

TypeOK ==
    /\ counts_len \in 1..MaxLen
    /\ policy \in Policies
    /\ \A c \in Cursors : it[c].current_index \in 0..(counts_len + MaxOverrun)
\* ---- properties ----
RECURSIVE SumAdded(_)
SumAdded(seq) ==
    IF seq = <<>> THEN 0
    ELSE Head(seq).snap.count_added_in_this_iter_step + SumAdded(Tail(seq))

EmittedIndices(c) == {emitted[c][k].index : k \in 1..Len(emitted[c])}

Increasing(c) ==
    \A k \in 1..(Len(emitted[c]) - 1) :
        emitted[c][k].index < emitted[c][k + 1].index

Target(c, k) == emitted[c][k].snap.percentile_level_iterated_to

\* C1: an AllValuesIterator emits the bucket indices 0, 1, 2, ... in order,
\* each once, and when it is exhausted it has emitted exactly
\* counts_len - 1 times, whatever the counts are.
C1_AllValuesEmitsLenMinusOne ==
    policy = "AllValues" =>
        /\ Len(emitted[1]) <= counts_len - 1
        /\ \A k \in 1..Len(emitted[1]) : emitted[1][k].index = k - 1
        /\ (it[1].end => Len(emitted[1]) = counts_len - 1)

C1_Witness ==
    /\ policy = "AllValues"
    /\ counts_len = 3
    /\ total_count > 0
    /\ it[1].end
    /\ Len(emitted[1]) = 2

\* C2: when a RecordedIterator is exhausted, the count_added_in_this_iter_step
\* of its emissions sum to the total count of the histogram.
C2_RecordedSumIsTotal ==
    (policy = "Recorded" /\ it[1].end) => SumAdded(emitted[1]) = total_count

\* C3: when a RecordedIterator is exhausted it has emitted, in increasing
\* order and once each, exactly the indices in 0..counts_len-1 whose count
\* is nonzero.
C3_RecordedEmitsNonzeroBuckets ==
    policy = "Recorded" =>
        /\ Increasing(1)
        /\ \A i \in EmittedIndices(1) : InRange(i) /\ counts[i] > 0
        /\ (it[1].end =>
               EmittedIndices(1) = {i \in 0..(counts_len - 1) : counts[i] > 0})

\* C4: a PercentileIterator driven by advance calls alone, once exhausted,
\* has a last emission with target exactly 100 if total_count > 0 and has
\* no emission at all if total_count = 0.
C4_PercentileEndsAtHundred ==
    (policy = "Percentile" /\ ~queried[1] /\ it[1].end) =>
        /\ (total_count > 0 =>
               /\ Len(emitted[1]) > 0
               /\ Target(1, Len(emitted[1])) = Hundred)
        /\ (total_count = 0 => Len(emitted[1]) = 0)

\* C5: the targets reported by successive PercentileIterator emissions are
\* strictly increasing and at most 100, and the target the cursor moves to
\* after an emission is above the reported one unless that was 100, and is
\* never above 100.
C5_TargetsIncreaseBelowHundred ==
    policy = "Percentile" =>
        /\ \A k \in 1..Len(emitted[1]) : RGeq(Hundred, Target(1, k))
        /\ \A k \in 1..(Len(emitted[1]) - 1) :
               RGt(Target(1, k + 1), Target(1, k))
        /\ RGeq(Hundred, it[1].percentile_to_iterate_to)
        /\ (RGt(Hundred, it[1].percentile_to_iterate_from) /\ Len(emitted[1]) > 0
              /\ ~it[1].reached_last_recorded_value =>
               RGt(it[1].percentile_to_iterate_to, it[1].percentile_to_iterate_from))

\* C6: over a histogram whose counts are all zero, a RecordedIterator and a
\* PercentileIterator never emit and are exhausted after the first advance,
\* while an AllValuesIterator emits only snapshots with count 0 and count
\* added 0 and has emitted counts_len - 1 of them when it is exhausted.
C6_ZeroPopulation ==
    total_count = 0 =>
        /\ (policy \in {"Recorded", "Percentile"} =>
               /\ Len(emitted[1]) = 0
               /\ (steps[1] >= 1 => it[1].end))
        /\ (policy = "AllValues" =>
               /\ \A k \in 1..Len(emitted[1]) :
                      /\ emitted[1][k].snap.count_at_value_iterated_to = 0
                      /\ emitted[1][k].snap.count_added_in_this_iter_step = 0
               /\ (it[1].end => Len(emitted[1]) = counts_len - 1))

C6_Witness ==
    /\ total_count = 0
    /\ counts_len = 3
    /\ steps[1] >= 1
    /\ it[1].end
    /\ policy = "AllValues"
    /\ Len(emitted[1]) = 2

C8_NoDivisionByZero == total_count = 0 => ~div_by_zero

\* cumulative percentile through bucket index i
CumulativePercentile(i) == Percent(SumTo(counts, i), total_count)

Min(S) == CHOOSE x \in S : \A y \in S : x <= y

ReachedBy(t) ==
    {i \in 0..(counts_len - 1) : RGeq(CumulativePercentile(i), t)}

RecordedReachedBy(t) == {i \in ReachedBy(t) : counts[i] > 0}

HighestEquivalentAt(i) == get_highest_equivalent_value(get_value_from_index(i))

C11_RecordedSnapshotFields ==
    policy = "Recorded" =>
        /\ \A k \in 1..Len(emitted[1]) :
              LET i == emitted[1][k].index
                  snap == emitted[1][k].snap
              IN /\ InRange(i)
                 /\ snap.count_added_in_this_iter_step = counts[i]
                 /\ snap.total_count_to_this_value = SumTo(counts, i)
                 /\ snap.percentile = Percent(SumTo(counts, i), total_count)
        /\ ((it[1].end /\ total_count > 0) =>
              /\ Len(emitted[1]) > 0
              /\ emitted[1][Len(emitted[1])].snap.total_count_to_this_value
                     = total_count
              /\ emitted[1][Len(emitted[1])].snap.percentile = Hundred)

RECURSIVE CharsToNat(_)
CharsToNat(cs) ==
    IF cs = <<>> THEN 0
    ELSE 10 * CharsToNat(SubSeq(cs, 1, Len(cs) - 1))
         + (CHOOSE d \in 0..9 : DigitChar(d) = cs[Len(cs)])

CharsToInt(cs) ==
    IF cs # <<>> /\ Head(cs) = "-" THEN 0 - CharsToNat(Tail(cs))
    ELSE CharsToNat(cs)

\* C12: an Exception built from code c and message m gives m back from
\* what() and c from code(); put_with_code renders m, a blank, and the
\* decimal value of c in parentheses; put_as_json renders
\* {"code":v,"message":"m"}; for invalid_argument (22) and "cannot send
\* message" these are the two strings the unit test expects.
C12_ExceptionPreservesCodeAndMessage ==
    exc.built =>
        /\ exc.e.what = exc.message
        /\ exc.e.code = exc.ec
        /\ (exc.with_code # <<>> =>
              LET t == exc.with_code
                  n == Len(exc.message)
              IN /\ Len(t) >= n + 4
                 /\ SubSeq(t, 1, n) = exc.message
                 /\ SubSeq(t, n + 1, n + 2) = <<" ", "(">>
                 /\ CharsToInt(SubSeq(t, n + 3, Len(t) - 1)) = exc.ec
                 /\ t[Len(t)] = ")")
        /\ (exc.as_json # <<>> =>
              LET j == exc.as_json
                  n == Len(exc.message)
              IN /\ Len(j) >= n + 23
                 /\ SubSeq(j, 1, 8) = <<"{", "\"", "c", "o", "d", "e", "\"", ":">>
                 /\ CharsToInt(SubSeq(j, 9, Len(j) - n - 14)) = exc.ec
                 /\ SubSeq(j, Len(j) - n - 13, Len(j) - n - 2) =
                       <<",", "\"", "m", "e", "s", "s", "a", "g", "e", "\"", ":", "\"">>
                 /\ SubSeq(j, Len(j) - n - 1, Len(j) - 2) = exc.message
                 /\ SubSeq(j, Len(j) - 1, Len(j)) = <<"\"", "}">>)
        /\ ((exc.ec = 22 /\ exc.message = <<"c", "a", "n", "n", "o", "t", " ",
                                           "s", "e", "n", "d", " ", "m", "e",
                                           "s", "s", "a", "g", "e">>) =>
              /\ (exc.with_code # <<>> =>
                    exc.with_code = <<"c", "a", "n", "n", "o", "t", " ",
                                      "s", "e", "n", "d", " ", "m", "e",
                                      "s", "s", "a", "g", "e", " ", "(",
                                      "2", "2", ")">>)
              /\ (exc.as_json # <<>> =>
                    exc.as_json = <<"{", "\"", "c", "o", "d", "e", "\"", ":",
                                    "2", "2", ",", "\"", "m", "e", "s", "s",
                                    "a", "g", "e", "\"", ":", "\"",
                                    "c", "a", "n", "n", "o", "t", " ",
                                    "s", "e", "n", "d", " ", "m", "e",
                                    "s", "s", "a", "g", "e", "\"", "}">>))

C12_Witness ==
    /\ exc.built
    /\ exc.ec = 22
    /\ Len(exc.message) = 19
    /\ Len(exc.with_code) = 24
    /\ Len(exc.as_json) = 43

\* C13: a PercentileIterator over a histogram with total_count = 0 has its
\* end flag set from construction on, and never takes the synthetic step
\* to 100%.
C13_EmptyPercentileStartsExhausted ==
    (policy = "Percentile" /\ total_count = 0) =>
        \A c \in Cursors :
            /\ it[c].end
            /\ ~it[c].reached_last_recorded_value

\* C14: a step adds at most one emission to a cursor; a step that adds none
\* leaves the cursor's snapshot as it was; and once a cursor is exhausted
\* no step changes its emissions, snapshot, exhausted flag, previous
\* emitted value or running cumulative count.
C14_OneEmissionPerAdvanceAndExhaustionAbsorbing ==
    [][\A c \in Cursors :
          /\ Len(emitted'[c]) <= Len(emitted[c]) + 1
          /\ SubSeq(emitted'[c], 1, Len(emitted[c])) = emitted[c]
          /\ (Len(emitted'[c]) = Len(emitted[c]) =>
                it'[c].current_iteration_value = it[c].current_iteration_value)
          /\ (it[c].end =>
                /\ emitted'[c] = emitted[c]
                /\ it'[c].current_iteration_value = it[c].current_iteration_value
                /\ it'[c].end
                /\ it'[c].prev_value_iterated_to = it[c].prev_value_iterated_to
                /\ it'[c].total_count_to_current_index =
                       it[c].total_count_to_current_index)]_vars

C14_Witness ==
    /\ it[1].end
    /\ ~queried[1]
    /\ Len(emitted[1]) >= 2
    /\ steps[1] = Len(emitted[1]) + 1
    /\ it[1].current_iteration_value = emitted[1][Len(emitted[1])].snap

\* C15: for every policy, each emission's value_iterated_from is the
\* value_iterated_to of the emission before it (the initial previous value
\* for the first), and its count added is its cumulative count minus the
\* cumulative count of the emission before it (0 for the first); so a
\* second emission on the same bucket index reports count added 0.
C15_SnapshotChaining ==
    \A k \in 1..Len(emitted[1]) :
        LET snap == emitted[1][k].snap
            from == IF k = 1 THEN HdrIteratorDefaults.prev_value_iterated_to
                    ELSE emitted[1][k - 1].snap.value_iterated_to
            before == IF k = 1 THEN HdrIteratorDefaults.total_count_to_prev_index
                      ELSE emitted[1][k - 1].snap.total_count_to_this_value
        IN /\ snap.value_iterated_from = from
           /\ snap.count_added_in_this_iter_step =
                  snap.total_count_to_this_value - before
           /\ ((k > 1 /\ emitted[1][k].index = emitted[1][k - 1].index) =>
                  snap.count_added_in_this_iter_step = 0)

C15_Witness ==
    /\ policy = "Percentile"
    /\ Len(emitted[1]) >= 3
    /\ emitted[1][2].index = emitted[1][1].index
    /\ emitted[1][2].snap.count_added_in_this_iter_step = 0
    /\ emitted[1][2].snap.count_at_value_iterated_to > 0
    /\ emitted[1][3].index > emitted[1][2].index
    /\ emitted[1][3].snap.value_iterated_from = emitted[1][2].snap.value_iterated_to
    /\ emitted[1][3].snap.value_iterated_from > 0

\* C16: in every reachable state the running cumulative count of a cursor is
\* sum(counts[0..current_index]) when the fresh flag is clear and
\* sum(counts[0..current_index-1]) when it is set, and never exceeds
\* total_count.
C16_CountFoldedOnce ==
    \A c \in Cursors :
        LET n == IF it[c].fresh_sub_bucket THEN it[c].current_index - 1
                 ELSE it[c].current_index
        IN /\ n <= counts_len - 1
           /\ it[c].total_count_to_current_index = SumTo(counts, n)
           /\ it[c].total_count_to_current_index <= total_count

\* C17: in every reachable state of a cursor, if has_next() returns true
\* then the operator++ call that follows it produces an emission.
C17_HasNextImpliesEmission ==
    ~hung[1] =>
        LET hn == has_next(it[1])
        IN hn.ret => OperatorInc(hn.it).emit

\* the emissions a cursor makes when it is driven by operator++ alone
RECURSIVE AdvanceOnlyEmissions(_, _)
AdvanceOnlyEmissions(s, fuel) ==
    IF fuel = 0 THEN <<>>
    ELSE LET r == OperatorInc(s)
         IN IF r.emit
            THEN <<[index |-> r.index, snap |-> r.it.current_iteration_value]>>
                 \o AdvanceOnlyEmissions(r.it, fuel - 1)
            ELSE <<>>

IsPrefix(a, b) == Len(a) <= Len(b) /\ SubSeq(b, 1, Len(a)) = a

\* C18: whatever has_next() calls the consumer puts between its operator++
\* calls, the emissions of a cursor are a prefix of those of a cursor driven
\* by operator++ alone, and all of them once the cursor is exhausted.
C18_HasNextDoesNotChangeEmissions ==
    LET alone == AdvanceOnlyEmissions(HdrIterator(total_count), MaxSteps)
    IN /\ IsPrefix(emitted[1], alone)
       /\ (it[1].end => emitted[1] = alone)

\* C19: for a cursor driven by operator++ alone every call returns, the
\* cursor is exhausted before the cap on counted calls is reached, and the
\* end flag is set exactly when a call has returned without emitting.
C19_AdvanceTerminatesAndExhausts ==
    ~queried[1] =>
        /\ ~hung[1]
        /\ steps[1] < MaxSteps
        /\ (it[1].end <=> Len(emitted[1]) < steps[1])
        /\ Len(emitted[1]) <= steps[1]
        /\ steps[1] <= Len(emitted[1]) + 1

\* C20: no cursor ever reads a bucket count at an index outside
\* 0..counts_len-1.
C20_CountReadsInRange == ~oob_read
====
